---- MODULE Spec2Model ----
(***************************************************************************)
(* Model of src/app.py: the SAM.gov search form.  One Streamlit script run *)
(* (search handler followed by the render phase) is one action; the        *)
(* session state (api_results, dataframe) persists between runs.           *)
(*                                                                         *)
(* Python strings are sequences of one-character strings, so that          *)
(* startswith, split, strip, the f-string link and the href regex are      *)
(* computed, not assumed.  Column names are program constants and stay     *)
(* TLA+ strings.                                                           *)
(***************************************************************************)
EXTENDS Integers, Sequences, FiniteSets, TLC

\* ------------------------------------------------------------------ bounds
MaxRows == 2
MaxFilterRows == 2
MaxUrlLen == 3

\* ------------------------------------------------------- Python values
\* A scalar: k is "str" (s = the characters), "none" (None), "nan" (the NaN
\* pandas puts in a cell whose record lacks the key), "num" (n = the number)
\* or "absent" (a key that a dict does not have).
Sc(k, s, n) == [k |-> k, s |-> s, n |-> n]
StrS(s) == Sc("str", s, 0)
NoneS == Sc("none", <<>>, 0)
NanS == Sc("nan", <<>>, 0)
NumS(n) == Sc("num", <<>>, n)
AbsentS == Sc("absent", <<>>, 0)

\* An entry of the placeOfPerformance dict under 'city' or 'state':
\* "absent" (no such key), "val" (a non-mapping value v) or "dict" (a mapping;
\* v is what it holds under 'name' / 'code', AbsentS when it has no such key).
Entry(k, v) == [k |-> k, v |-> v]
NoEntry == Entry("absent", AbsentS)
EmptyPop == [city |-> NoEntry, state |-> NoEntry, zip |-> AbsentS]

\* A cell value: a scalar, or k = "dict" with d the placeOfPerformance mapping.
Val(k, s, n, d) == [k |-> k, s |-> s, n |-> n, d |-> d]
Str(s) == Val("str", s, 0, EmptyPop)
None == Val("none", <<>>, 0, EmptyPop)
NaN == Val("nan", <<>>, 0, EmptyPop)
Num(n) == Val("num", <<>>, n, EmptyPop)
Dict(d) == Val("dict", <<>>, 0, d)

isnull(v) == v.k \in {"none", "nan"}

\* --------------------------------------------------------------- strings
DigitChars == <<"0", "1", "2", "3", "4", "5", "6", "7", "8", "9">>
DigitValue == [c \in {DigitChars[j] : j \in 1..10} |->
                 (CHOOSE j \in 1..10 : DigitChars[j] = c) - 1]
IsDigit(c) == c \in DOMAIN DigitValue
DigitOf(c) == DigitValue[c]

RECURSIVE Digits(_)
Digits(n) == IF n < 10 THEN <<DigitChars[n + 1]>>
             ELSE Digits(n \div 10) \o <<DigitChars[(n % 10) + 1]>>

\* str(x) for a scalar, as used by astype(str) and by f-strings
PyStr(k, s, n) ==
  CASE k = "str" -> s
    [] k = "none" -> <<"N", "o", "n", "e">>
    [] k = "nan" -> <<"n", "a", "n">>
    [] k = "num" -> Digits(n)
    [] OTHER -> <<>>

startswith(s, p) == Len(s) >= Len(p) /\ SubSeq(s, 1, Len(p)) = p

\* str.strip(chars): drop leading and trailing characters that are in chars
RECURSIVE lstrip(_, _)
lstrip(s, chars) == IF s # <<>> /\ Head(s) \in chars THEN lstrip(Tail(s), chars) ELSE s
RECURSIVE rstrip(_, _)
rstrip(s, chars) == IF s # <<>> /\ s[Len(s)] \in chars
                    THEN rstrip(SubSeq(s, 1, Len(s) - 1), chars) ELSE s
strip(s, chars) == rstrip(lstrip(s, chars), chars)

\* str.split(): the maximal runs of non-space characters
RECURSIVE split(_, _)
split(s, cur) ==
  IF s = <<>> THEN (IF cur = <<>> THEN <<>> ELSE <<cur>>)
  ELSE IF Head(s) = " "
       THEN (IF cur = <<>> THEN <<>> ELSE <<cur>>) \o split(Tail(s), <<>>)
       ELSE split(Tail(s), Append(cur, Head(s)))

LowerChars == <<"a", "b", "c", "d", "e", "f", "g", "h", "i", "j", "k", "l", "m",
                "n", "o", "p", "q", "r", "s", "t", "u", "v", "w", "x", "y", "z">>
UpperChars == <<"A", "B", "C", "D", "E", "F", "G", "H", "I", "J", "K", "L", "M",
                "N", "O", "P", "Q", "R", "S", "T", "U", "V", "W", "X", "Y", "Z">>
UpperOf == [c \in {LowerChars[j] : j \in 1..26} |->
              UpperChars[CHOOSE j \in 1..26 : LowerChars[j] = c]]
upper(c) == IF c \in DOMAIN UpperOf THEN UpperOf[c] ELSE c

\* ------------------------------------------------------------ timestamps
\* pd.to_datetime(..., errors='coerce', utc=True) on the timestamps the API
\* sends, "YYYY-MM-DDTHH:MM:SSZ"; anything else in the input sets of this
\* model is not a date in any format and is coerced to NaT.
NaT == [ok |-> FALSE, y |-> 0, mo |-> 0, d |-> 0, h |-> 0, mi |-> 0, se |-> 0]

Num2(s, i) == DigitOf(s[i]) * 10 + DigitOf(s[i + 1])
Num4(s, i) == Num2(s, i) * 100 + Num2(s, i + 2)

IsLeap(y) == (y % 4 = 0 /\ y % 100 # 0) \/ y % 400 = 0
DaysIn(y, mo) == IF mo = 2 THEN (IF IsLeap(y) THEN 29 ELSE 28)
                 ELSE IF mo \in {4, 6, 9, 11} THEN 30 ELSE 31

to_datetime(v) ==
  IF v.k # "str" THEN NaT
  ELSE LET s == v.s IN
    IF /\ Len(s) = 20
       /\ \A i \in {1, 2, 3, 4, 6, 7, 9, 10, 12, 13, 15, 16, 18, 19} : IsDigit(s[i])
       /\ s[5] = "-" /\ s[8] = "-" /\ s[11] = "T"
       /\ s[14] = ":" /\ s[17] = ":" /\ s[20] = "Z"
    THEN LET t == [ok |-> TRUE, y |-> Num4(s, 1), mo |-> Num2(s, 6), d |-> Num2(s, 9),
                   h |-> Num2(s, 12), mi |-> Num2(s, 15), se |-> Num2(s, 18)]
         IN IF /\ t.mo \in 1..12 /\ t.d >= 1 /\ t.d <= DaysIn(t.y, t.mo)
               /\ t.h < 24 /\ t.mi < 60 /\ t.se < 60
            THEN t ELSE NaT
    ELSE NaT

\* The UTC instant of a parsed timestamp as (day, second of the day) on a
\* scale that grows with time (months counted as 31 days: order-preserving,
\* which is all the >= of line 132 needs).
DayOf(t) == (t.y * 12 + (t.mo - 1)) * 31 + (t.d - 1)
SecOf(t) == (t.h * 60 + t.mi) * 60 + t.se
ts_ge(a, b) == DayOf(a) > DayOf(b) \/ (DayOf(a) = DayOf(b) /\ SecOf(a) >= SecOf(b))

\* pd.to_datetime(due_date_from).tz_localize('UTC'): midnight UTC of the date
DateMidnightUTC(date) ==
  [ok |-> TRUE, y |-> date.y, mo |-> date.mo, d |-> date.d, h |-> 0, mi |-> 0, se |-> 0]

Pad2(n) == IF n < 10 THEN <<"0">> \o Digits(n) ELSE Digits(n)
Pad4(n) == IF n < 10 THEN <<"0", "0", "0">> \o Digits(n)
           ELSE IF n < 100 THEN <<"0", "0">> \o Digits(n)
           ELSE IF n < 1000 THEN <<"0">> \o Digits(n) ELSE Digits(n)

\* dt_obj.strftime("%Y-%m-%d %H:%M UTC")
strftime(t) == Pad4(t.y) \o <<"-">> \o Pad2(t.mo) \o <<"-">> \o Pad2(t.d) \o <<" ">>
               \o Pad2(t.h) \o <<":">> \o Pad2(t.mi) \o <<" ", "U", "T", "C">>

\* ------------------------------------------------------------ formatters
\* A call's result: the returned string, or raised = TRUE when the call
\* raises (AttributeError from .get on a value that is no mapping).
Ret(s) == [raised |-> FALSE, s |-> s]
Raise == [raised |-> TRUE, s |-> <<>>]

NA == <<"N", "/", "A">>

\* pop_data.get(key, {}).get(sub, 'N/A')
GetGet(e) ==
  CASE e.k = "absent" -> [raised |-> FALSE, v |-> StrS(NA)]
    [] e.k = "val" -> [raised |-> TRUE, v |-> AbsentS]
    [] OTHER -> [raised |-> FALSE, v |-> IF e.v.k = "absent" THEN StrS(NA) ELSE e.v]

format_performance_place(pop_data) ==
  IF pop_data.k = "dict"
  THEN LET city == GetGet(pop_data.d.city)
           state == GetGet(pop_data.d.state)
           zip_code == IF pop_data.d.zip.k = "absent" THEN StrS(NA) ELSE pop_data.d.zip
       IN IF city.raised \/ state.raised THEN Raise
          ELSE IF city.v # StrS(NA) \/ state.v # StrS(NA) \/ zip_code # StrS(NA)
               THEN Ret(strip(PyStr(city.v.k, city.v.s, city.v.n) \o <<",", " ">>
                              \o PyStr(state.v.k, state.v.s, state.v.n) \o <<" ">>
                              \o PyStr(zip_code.k, zip_code.s, zip_code.n),
                              {",", " "}))
               ELSE Ret(<<"A", "d", "d", "r", "e", "s", "s", " ", "U", "n", "a", "v",
                          "a", "i", "l", "a", "b", "l", "e">>)
  ELSE Ret(NA)

format_deadline(date_str) ==
  IF date_str.k # "str" \/ date_str.s = <<>> THEN Ret(NA)
  ELSE LET dt_obj == to_datetime(date_str)
       IN IF ~dt_obj.ok
          THEN Ret(<<"I", "n", "v", "a", "l", "i", "d", " ", "D", "a", "t", "e">>)
          ELSE Ret(strftime(dt_obj))

RECURSIVE Initials(_)
Initials(words) == IF words = <<>> THEN <<>>
                   ELSE <<upper(Head(words)[1])>> \o Initials(Tail(words))

format_initialism(x) == IF x.k = "str" THEN Ret(Initials(split(x.s, <<>>))) ELSE Ret(<<>>)

\* The link column: f'<a href="{x}" target="_blank">View more</a>', '' otherwise
HrefOpen == <<"<", "a", " ", "h", "r", "e", "f", "=", "\"">>
HrefClose == <<"\"", " ", "t", "a", "r", "g", "e", "t", "=", "\"", "_", "b", "l", "a",
               "n", "k", "\"", ">", "V", "i", "e", "w", " ", "m", "o", "r", "e",
               "<", "/", "a", ">">>
link_html(x) == IF x.k = "str" THEN HrefOpen \o x.s \o HrefClose ELSE <<>>

\* Series.str.extract(r'href="([^"]+)"'): the group of the leftmost match,
\* NaN when nothing matches.
HrefKey == <<"h", "r", "e", "f", "=", "\"">>
MatchAt(s, p) ==
  /\ p + 6 <= Len(s)
  /\ SubSeq(s, p, p + 5) = HrefKey
  /\ s[p + 6] # "\""
  /\ \E q \in (p + 7)..Len(s) : s[q] = "\""
extract_href(s) ==
  IF \E p \in 1..Len(s) : MatchAt(s, p)
  THEN LET p == CHOOSE p \in 1..Len(s) :
                  MatchAt(s, p) /\ \A p2 \in 1..(p - 1) : ~MatchAt(s, p2)
           q == CHOOSE q \in (p + 7)..Len(s) :
                  s[q] = "\"" /\ \A q2 \in (p + 7)..(q - 1) : s[q2] # "\""
       IN Str(SubSeq(s, p + 6, q - 1))
  ELSE NaN

\* ------------------------------------------------- records and DataFrames
\* An opportunity record as decoded from JSON: its keys in order, and values.
Rec(keys, val) == [keys |-> keys, val |-> val]
KeySet(rec) == {rec.keys[j] : j \in 1..Len(rec.keys)}

\* pd.DataFrame(results): the columns are the keys in order of first
\* appearance, a cell whose record lacks the key is NaN, the index is 0..n-1.
RECURSIVE NewKeys(_, _)
NewKeys(keys, have) ==
  IF keys = <<>> THEN <<>>
  ELSE (IF Head(keys) \in have THEN <<>> ELSE <<Head(keys)>>)
       \o NewKeys(Tail(keys), have \cup {Head(keys)})
RECURSIVE UnionCols(_, _)
UnionCols(results, acc) ==
  IF results = <<>> THEN acc
  ELSE UnionCols(Tail(results),
                 acc \o NewKeys(Head(results).keys, {acc[j] : j \in 1..Len(acc)}))

ColSet(f) == {f.cols[j] : j \in 1..Len(f.cols)}
\* A frame: the column names in order and the rows, each with its index label
\* and its cells in column order.
Frame(cols, rows) == [k |-> "df", cols |-> cols, rows |-> rows]
NoneFrame == [k |-> "none", cols |-> <<>>, rows |-> <<>>]
UnsetFrame == [k |-> "unset", cols |-> <<>>, rows |-> <<>>]
empty(f) == f.rows = <<>>
ColIndex(cols, col) == CHOOSE j \in 1..Len(cols) : cols[j] = col
Cell(f, r, col) == r.cells[ColIndex(f.cols, col)]

\* the sequence <<F(s[1]), ..., F(s[n])>>
MapSeq(s, F(_)) == [j \in 1..Len(s) |-> F(s[j])] \o <<>>
\* the sequence <<G(1), ..., G(n)>>
Tabulate(n, G(_)) == [j \in 1..n |-> G(j)] \o <<>>

DataFrame(results) ==
  LET cols == UnionCols(results, <<>>)
      row(j) == [idx |-> j - 1,
                 cells |-> Tabulate(Len(cols),
                                    LAMBDA m : IF cols[m] \in KeySet(results[j])
                                               THEN results[j].val[cols[m]] ELSE NaN)]
  IN Frame(cols, Tabulate(Len(results), row))

\* df[col] = df[col].apply(F): the column assigned in place
MapCol(f, col, F(_)) ==
  LET at == ColIndex(f.cols, col)
      row(r) == [idx |-> r.idx,
                 cells |-> Tabulate(Len(f.cols),
                                    LAMBDA m : IF m = at THEN F(r.cells[m])
                                               ELSE r.cells[m])]
  IN Frame(f.cols, MapSeq(f.rows, row))
\* df[new] = df[src].apply(F): a column appended (or overwritten) in place
SetCol(f, new, src, F(_)) ==
  LET from == ColIndex(f.cols, src)
      row(r) == [idx |-> r.idx,
                 cells |-> IF new \in ColSet(f)
                           THEN Tabulate(Len(f.cols),
                                         LAMBDA m : IF f.cols[m] = new
                                                    THEN F(r.cells[from])
                                                    ELSE r.cells[m])
                           ELSE Append(r.cells, F(r.cells[from]))]
  IN Frame(IF new \in ColSet(f) THEN f.cols ELSE Append(f.cols, new),
           MapSeq(f.rows, row))
\* df.rename(columns={old: new})
RenameCol(f, old, new) ==
  Frame(MapSeq(f.cols, LAMBDA c : IF c = old THEN new ELSE c), f.rows)
\* df[cols] and df.drop(columns=[col]): a new frame with the listed columns
Project(f, cols) ==
  LET row(r) == [idx |-> r.idx,
                 cells |-> MapSeq(cols, LAMBDA c : r.cells[ColIndex(f.cols, c)])]
  IN Frame(cols, MapSeq(f.rows, row))
DropCol(f, col) ==
  LET keep(c) == c # col IN Project(f, SelectSeq(f.cols, keep))

\* ------------------------------------------------------------ the filters
Prefix23 == <<"2", "3">>
blank == <<"b", "l", "a", "n", "k">>

\* lines 85-86: astype(str), then str.startswith('23', na=False)
naics_astype_str(cell) == Str(PyStr(cell.k, cell.s, cell.n))
naics_keep(cell) == startswith(naics_astype_str(cell).s, Prefix23)

\* lines 99-108: the mask of the set-aside filter for one cell
set_aside_mask(cell, selected_set_asides) ==
  LET on_blank == blank \in selected_set_asides /\ (isnull(cell) \/ cell = Str(<<>>))
      rest == selected_set_asides \ {blank}
      on_rest == rest # {} /\ cell.k = "str" /\ cell.s \in rest
  IN on_blank \/ on_rest

\* the comparison of line 132 made strict
deadline_keep_after(dt, due_date_from) ==
  dt.ok /\ ts_ge(dt, DateMidnightUTC(due_date_from)) /\ dt # DateMidnightUTC(due_date_from)

\* lines 129-132: notna() of the parsed cell, then >= midnight UTC of the date
deadline_keep(dt, due_date_from) ==
  dt.ok /\ ts_ge(dt, DateMidnightUTC(due_date_from))

\* ------------------------------------------------------ the search handler
Msg(lvl, id) == [lvl |-> lvl, id |-> id]

NoResults == [k |-> "unset", v |-> <<>>]
NoneResults == [k |-> "none", v |-> <<>>]
ListResults(v) == [k |-> "list", v |-> v]

HasCol(f, col) == col \in ColSet(f)
FilterRows(f, keep(_)) == Frame(f.cols, SelectSeq(f.rows, keep))

\* The handler's position while the filters run: df is the local DataFrame,
\* dataframe is st.session_state.dataframe, stopped is set by st.stop().
\* applied lists the filters that have selected rows in this run.

\* the empty branch without its st.stop()
empty_branch_continue(c, id) ==
  [c EXCEPT !.msgs = Append(@, Msg("warning", id)),
            !.dataframe = NoneFrame]

\* lines 87-90, 111-114, 137-140: the branch taken when a filter leaves no row
empty_branch(c, id) ==
  [c EXCEPT !.msgs = Append(@, Msg("warning", id)),
            !.dataframe = NoneFrame,
            !.stopped = TRUE]

\* lines 91-93, 115-117, 141-143: the branch taken when the column is absent
absent_branch(c, id) ==
  [c EXCEPT !.msgs = Append(@, Msg("warning", id)),
            !.stopped = TRUE]

\* lines 83-93
naics_stage(c, i) ==
  IF c.stopped \/ ~i.include_naics_23 THEN c
  ELSE IF HasCol(c.df, "naicsCode")
       THEN LET conv == MapCol(c.df, "naicsCode", naics_astype_str)
                keep(r) == naics_keep(Cell(conv, r, "naicsCode"))
                c2 == [c EXCEPT !.df = FilterRows(conv, keep),
                                !.applied = Append(@, "naics")]
            IN IF empty(c2.df) THEN empty_branch(c2, "no_naics_23") ELSE c2
       ELSE absent_branch(c, "no_naics_data")

\* lines 96-117
set_aside_stage(c, i) ==
  IF c.stopped \/ i.selected_set_asides = {} THEN c
  ELSE IF HasCol(c.df, "typeOfSetAside")
       THEN LET keep(r) == set_aside_mask(Cell(c.df, r, "typeOfSetAside"), i.selected_set_asides)
                c2 == [c EXCEPT !.df = FilterRows(c.df, keep),
                                !.applied = Append(@, "set_aside")]
            IN IF empty(c2.df) THEN empty_branch(c2, "no_set_aside_match") ELSE c2
       ELSE absent_branch(c, "no_set_aside_data")

\* lines 120-143: the parsed column is added, the rows selected on it, and
\* the column dropped again
deadline_stage(c, i) ==
  IF c.stopped \/ ~i.due_date_from.set THEN c
  ELSE IF HasCol(c.df, "responseDeadLine")
       THEN LET with_dt == SetCol(c.df, "responseDeadLine_dt", "responseDeadLine",
                                  to_datetime)
                keep(r) == deadline_keep(Cell(with_dt, r, "responseDeadLine_dt"),
                                         i.due_date_from)
                c2 == [c EXCEPT !.df = DropCol(FilterRows(with_dt, keep),
                                               "responseDeadLine_dt"),
                                !.applied = Append(@, "deadline")]
            IN IF empty(c2.df) THEN empty_branch(c2, "no_deadline_match") ELSE c2
       ELSE absent_branch(c, "no_deadline_data")

\* lines 145-146
store_stage(c) ==
  IF c.stopped THEN c
  ELSE [c EXCEPT !.dataframe = c.df, !.msgs = Append(@, Msg("success", "found"))]

\* the except block without line 151
on_request_exception_keep(c) ==
  [c EXCEPT !.msgs = Append(@, Msg("error", "request_failed")),
            !.api_results = NoneResults]

\* lines 148-151
on_request_exception(c) ==
  [c EXCEPT !.msgs = Append(@, Msg("error", "request_failed")),
            !.api_results = NoneResults,
            !.dataframe = NoneFrame]

\* lines 71-74
on_no_results(c) ==
  [c EXCEPT !.msgs = Append(@, Msg("warning", "no_results")),
            !.api_results = NoneResults,
            !.dataframe = NoneFrame]

\* lines 41-151; ss is the session state before the run, i the widget values
\* and the API's answer
search_handler(ss, i) ==
  LET c0 == [api_results |-> ss.api_results, dataframe |-> ss.dataframe,
             df |-> NoneFrame, msgs |-> <<>>, applied |-> <<>>, stopped |-> FALSE]
  IN IF ~i.button THEN c0
     ELSE IF ~i.dates_ok
          THEN [c0 EXCEPT !.msgs = <<Msg("error", "need_dates")>>]
          ELSE LET c1 == [c0 EXCEPT !.msgs = <<Msg("info", "requesting")>>]
               IN IF i.resp.k = "error" THEN on_request_exception(c1)
                  ELSE IF i.resp.results = <<>> THEN on_no_results(c1)
                  ELSE LET c2 == [c1 EXCEPT !.api_results = ListResults(i.resp.results),
                                            !.df = DataFrame(i.resp.results)]
                       IN store_stage(deadline_stage(set_aside_stage(naics_stage(c2, i), i), i))

\* -------------------------------------------------------- the render phase
\* DataFrames are objects: a name bound to one refers to it, an in-place
\* operation changes the object for every name that refers to it.  The heap
\* maps each object of the render phase (session, df, df_display, ...) to
\* its value.

\* a plain assignment in place of .copy(): the same object under a second name
copy_alias(h, src, new) == [ref |-> src, heap |-> h]

\* DataFrame.copy(): a new object with the same contents
copy(h, src, new) == [ref |-> new, heap |-> [h EXCEPT ![new] = h[src]]]

columns_to_display == <<"Place of Performance", "fullParentPathName", "title",
                        "Response Deadline", "Opportunity Link", "naicsCode",
                        "typeOfSetAside">>

View(rendered, crashed, shown, visible, full) ==
  [rendered |-> rendered, crashed |-> crashed, shown |-> shown,
   visible_export |-> visible, full_export |-> full]
NoView == View(FALSE, FALSE, NoneFrame, NoneFrame, NoneFrame)

\* lines 193-196
display_place(h, d) ==
  IF HasCol(h[d], "placeOfPerformance")
  THEN [h EXCEPT ![d] = RenameCol(MapCol(@, "placeOfPerformance",
                                         LAMBDA v : Str(format_performance_place(v).s)),
                                  "placeOfPerformance", "Place of Performance")]
  ELSE h
place_raises(f) ==
  /\ HasCol(f, "placeOfPerformance")
  /\ \E j \in 1..Len(f.rows) :
       format_performance_place(Cell(f, f.rows[j], "placeOfPerformance")).raised

\* lines 199-202
display_deadline(h, d) ==
  IF HasCol(h[d], "responseDeadLine")
  THEN [h EXCEPT ![d] = RenameCol(MapCol(@, "responseDeadLine",
                                         LAMBDA v : Str(format_deadline(v).s)),
                                  "responseDeadLine", "Response Deadline")]
  ELSE h

\* lines 206-209
display_path(h, d) ==
  IF HasCol(h[d], "fullParentPathName")
  THEN [h EXCEPT ![d] = MapCol(@, "fullParentPathName",
                               LAMBDA v : Str(format_initialism(v).s))]
  ELSE h

\* lines 212-218: the link column is added in place, the drop makes a new object
display_link(h, d) ==
  IF HasCol(h[d], "uiLink")
  THEN LET h1 == [h EXCEPT ![d] = SetCol(@, "Opportunity Link", "uiLink",
                                         LAMBDA v : Str(link_html(v)))]
       IN [ref |-> "df_display_dropped",
           heap |-> [h1 EXCEPT !["df_display_dropped"] = DropCol(h1[d], "uiLink")]]
  ELSE [ref |-> d, heap |-> h]

\* lines 232-235
project_display(h, d) ==
  LET present(c) == HasCol(h[d], c)
  IN [ref |-> "df_display_projected",
      heap |-> [h EXCEPT !["df_display_projected"] =
                           Project(h[d], SelectSeq(columns_to_display, present))]]

\* lines 242-246: the link column reduced to the URL, in place, and renamed
strip_link(h, d) ==
  IF HasCol(h[d], "Opportunity Link")
  THEN [h EXCEPT ![d] = RenameCol(MapCol(@, "Opportunity Link",
                                         LAMBDA v : extract_href(v.s)),
                                  "Opportunity Link", "uiLink (Opportunity URL)")]
  ELSE h

\* lines 241-246
download_display(h, d) ==
  [ref |-> copy(h, d, "df_download_display").ref,
   heap |-> strip_link(copy(h, d, "df_download_display").heap,
                       copy(h, d, "df_download_display").ref)]

\* lines 249-276: the displayed-columns export, the full export of df, and the
\* table shown; h is the heap at the end of the run
render_outputs(h, df, df_display, df_download_display) ==
  [view |-> View(TRUE, FALSE, h[df_display], h[df_download_display], h[df]),
   dataframe |-> h.session]

\* lines 232-246
render_projection(df, l) ==
  render_outputs(download_display(project_display(l.heap, l.ref).heap,
                                  "df_display_projected").heap,
                 df, "df_display_projected", "df_download_display")

\* lines 192-218; a formatter that raises ends the run with nothing rendered
render_display(h, df, df_display) ==
  IF place_raises(h[df_display])
  THEN [view |-> View(FALSE, TRUE, NoneFrame, NoneFrame, NoneFrame),
        dataframe |-> h.session]
  ELSE render_projection(
         df,
         display_link(display_path(display_deadline(display_place(h, df_display),
                                                    df_display), df_display),
                      df_display))

\* line 190
render_copy_display(a) ==
  render_display(copy(a.heap, a.ref, "df_display").heap, a.ref,
                 copy(a.heap, a.ref, "df_display").ref)

\* lines 186-276: what the run shows and offers for download, and the session's
\* dataframe object afterwards
render(dataframe) ==
  IF ~(dataframe.k = "df" /\ ~empty(dataframe))
  THEN [view |-> NoView, dataframe |-> dataframe]
  ELSE render_copy_display(
         copy([session |-> dataframe, df |-> UnsetFrame, df_display |-> UnsetFrame,
               df_display_dropped |-> UnsetFrame,
               df_display_projected |-> UnsetFrame,
               df_download_display |-> UnsetFrame],
              "session", "df"))

\* ------------------------------------------------------------------ state
VARIABLES
  api_results,  \* st.session_state.api_results
  dataframe,    \* st.session_state.dataframe
  inp,          \* the widget values of the last run and the API's answer to
                \* the last request
  run,          \* what the last run did: messages, filters applied, st.stop(),
                \* and what it rendered
  fcall         \* the last formatter call: op, argument, result (res), and for
                \* the link the cell written to the displayed-columns export (out)

vars == <<api_results, dataframe, inp, run, fcall>>

NoDate == [set |-> FALSE, y |-> 0, mo |-> 0, d |-> 0]
Date(y, mo, d) == [set |-> TRUE, y |-> y, mo |-> mo, d |-> d]
NoResp == [k |-> "none", results |-> <<>>]
ErrResp == [k |-> "error", results |-> <<>>]
OkResp(results) == [k |-> "ok", results |-> results]

Input(button, dates_ok, naics, sel, due, resp) ==
  [button |-> button, dates_ok |-> dates_ok, include_naics_23 |-> naics,
   selected_set_asides |-> sel, due_date_from |-> due, resp |-> resp]

RunRec(phase, c, v) ==
  [phase |-> phase, msgs |-> c.msgs, applied |-> c.applied, stopped |-> c.stopped,
   view |-> v]
IdleRun(phase) ==
  [phase |-> phase, msgs |-> <<>>, applied |-> <<>>, stopped |-> FALSE, view |-> NoView]

Call(op, arg, res, out) == [op |-> op, arg |-> arg, res |-> res, out |-> out]
NoCall == Call("none", None, Ret(<<>>), None)

\* ----------------------------------------------------------------- inputs
SBA == <<"S", "B", "A">>

GoodPop == Dict([city |-> Entry("dict", StrS(<<"A", "u", "s", "t", "i", "n">>)),
                 state |-> Entry("dict", StrS(<<"T", "X">>)),
                 zip |-> StrS(<<"7", "8", "7", "0", "1">>)])
NullCityPop == Dict([city |-> Entry("val", NoneS), state |-> NoEntry, zip |-> AbsentS])

RecA ==
  Rec(<<"title", "naicsCode", "typeOfSetAside", "responseDeadLine",
        "fullParentPathName", "uiLink", "placeOfPerformance">>,
      [title |-> Str(<<"R", "o", "o", "f">>),
       naicsCode |-> Str(<<"2", "3", "6", "2", "2", "0">>),
       typeOfSetAside |-> Str(SBA),
       responseDeadLine |-> Str(<<"2", "0", "2", "5", "-", "0", "1", "-", "1", "5", "T", "0", "0", ":", "0", "0", ":", "0", "0", "Z">>),
       fullParentPathName |-> Str(<<"d", "e", "p", "t", " ", "o", "f", " ", "x">>),
       uiLink |-> Str(<<"u", "/", "1">>),
       placeOfPerformance |-> GoodPop])
RecB ==
  Rec(<<"title", "naicsCode", "typeOfSetAside", "responseDeadLine",
        "placeOfPerformance">>,
      [title |-> Str(<<"A", "u", "d", "i", "t">>),
       naicsCode |-> Str(<<"5", "4", "1", "5", "1", "1">>),
       typeOfSetAside |-> Str(<<>>),
       responseDeadLine |-> Str(<<"T", "B", "D">>),
       placeOfPerformance |-> NullCityPop])
RecC ==
  Rec(<<"title", "uiLink">>,
      [title |-> Str(<<"N", "o", "t", "e">>), uiLink |-> Str(<<"u", "/", "2">>)])

RecD ==
  Rec(<<"title", "naicsCode", "typeOfSetAside", "responseDeadLine", "uiLink">>,
      [title |-> Str(<<"P", "a", "v", "e">>),
       naicsCode |-> Str(<<"2", "3", "7", "3", "1", "0">>),
       typeOfSetAside |-> Str(<<"8", "A">>),
       responseDeadLine |-> Str(<<"2", "0", "2", "4", "-", "1", "2", "-", "3", "1", "T", "2", "3", ":", "5", "9", ":", "5", "9", "Z">>),
       uiLink |-> None])

\* The opportunities on the server, in the order the API lists them; a
\* request returns those posted in its date range, at most MaxRows of them.
Catalogue == <<RecA, RecB, RecC, RecD>>
RECURSIVE Listed(_, _)
Listed(from, S) ==
  IF from > Len(Catalogue) THEN <<>>
  ELSE (IF from \in S THEN <<Catalogue[from]>> ELSE <<>>) \o Listed(from + 1, S)
Responses ==
  {Listed(1, S) : S \in {T \in SUBSET (1..Len(Catalogue)) : Cardinality(T) <= MaxRows}}

DueDate == Date(2025, 1, 1)
Dues == {NoDate, DueDate}

\* A search of the session: both dates given and the API's answer, or a date
\* missing (lines 42-43, where neither the filters nor the API are consulted)
SessionInputs ==
  {Input(TRUE, TRUE, n, s, d, r) :
     n \in BOOLEAN, s \in {{}, {SBA}}, d \in Dues,
     r \in {ErrResp} \cup {OkResp(rs) : rs \in Responses}}
  \cup {Input(TRUE, FALSE, FALSE, {}, NoDate, NoResp)}

\* ---------------------------------------------------------------- actions
Init ==
  /\ api_results = NoResults
  /\ dataframe = UnsetFrame
  /\ inp = Input(FALSE, FALSE, FALSE, {}, NoDate, NoResp)
  /\ run = IdleRun("idle")
  /\ fcall = NoCall

\* One script run with widget values and API answer i
ScriptRun(i) ==
  LET c == search_handler([api_results |-> api_results, dataframe |-> dataframe], i)
      r == IF c.stopped THEN [view |-> NoView, dataframe |-> c.dataframe]
           ELSE render(c.dataframe)
  IN /\ api_results' = c.api_results
     /\ dataframe' = r.dataframe
     /\ run' = RunRec("done", c, r.view)

\* The user presses "Search Opportunities"
SearchRun ==
  \E i \in SessionInputs :
    /\ ScriptRun(i)
    /\ inp' = IF i.dates_ok THEN i ELSE [i EXCEPT !.resp = inp.resp]
    /\ UNCHANGED fcall

\* Any other interaction reruns the script with the button not pressed
Rerun ==
  /\ run.phase = "done"
  /\ ScriptRun([inp EXCEPT !.button = FALSE])
  /\ inp' = [inp EXCEPT !.button = FALSE]
  /\ UNCHANGED fcall

Next == SearchRun \/ Rerun

Spec == Init /\ [][Next]_vars

\* ------------------------------------------- one search on a fresh session
\* The filter chain on its own: the widget values and the API's answer are
\* drawn first, then the search runs once on a session that holds nothing.
FilterF1 ==
  Rec(<<"naicsCode", "typeOfSetAside", "responseDeadLine">>,
      [naicsCode |-> Str(<<"2", "3", "6", "2", "2", "0">>),
       typeOfSetAside |-> Str(SBA),
       responseDeadLine |-> Str(<<"2", "0", "2", "5", "-", "0", "1", "-", "0", "1", "T", "0", "0", ":", "0", "0", ":", "0", "0", "Z">>)])
FilterF2 ==
  Rec(<<"naicsCode", "typeOfSetAside", "responseDeadLine">>,
      [naicsCode |-> Str(<<"5", "4", "1", "5", "1", "1">>),
       typeOfSetAside |-> Str(<<>>),
       responseDeadLine |-> Str(<<"2", "0", "2", "4", "-", "1", "2", "-", "3", "1", "T", "2", "3", ":", "5", "9", ":", "5", "9", "Z">>)])
FilterF3 ==
  Rec(<<"naicsCode", "typeOfSetAside", "responseDeadLine">>,
      [naicsCode |-> None, typeOfSetAside |-> None, responseDeadLine |-> None])
FilterF4 ==
  Rec(<<"naicsCode", "typeOfSetAside", "responseDeadLine">>,
      [naicsCode |-> Str(<<"2", "3">>),
       typeOfSetAside |-> Str(<<"8", "A">>),
       responseDeadLine |-> Str(<<"T", "B", "D">>)])
FilterF5 == Rec(<<"title">>, [title |-> Str(<<"N", "o", "t", "e">>)])
FilterF6 ==
  Rec(<<"typeOfSetAside", "responseDeadLine">>,
      [typeOfSetAside |-> Str(SBA),
       responseDeadLine |-> Str(<<"2", "0", "2", "5", "-", "0", "1", "-", "1", "5", "T", "0", "0", ":", "0", "0", ":", "0", "0", "Z">>)])
FilterF7 == Rec(<<"naicsCode">>, [naicsCode |-> Str(<<"2", "3", "8", "9", "9", "0">>)])
FilterPool == {FilterF1, FilterF2, FilterF3, FilterF4, FilterF5, FilterF6, FilterF7}

FilterInputs ==
  {Input(TRUE, TRUE, n, s, d, OkResp(rs)) :
     n \in BOOLEAN, s \in SUBSET {blank, SBA}, d \in Dues,
     rs \in UNION {[1..m -> FilterPool] : m \in 0..MaxFilterRows}}

FilterInit ==
  /\ api_results = NoResults
  /\ dataframe = UnsetFrame
  /\ inp \in FilterInputs
  /\ run = IdleRun("pending")
  /\ fcall = NoCall

FilterSearch ==
  /\ run.phase = "pending"
  /\ ScriptRun(inp)
  /\ UNCHANGED <<inp, fcall>>

FilterNext == FilterSearch

FilterSpec == FilterInit /\ [][FilterNext]_vars

\* ------------------------------------------------ the formatters on their own
Entries(word) ==
  {NoEntry, Entry("val", NoneS), Entry("val", StrS(word)),
   Entry("dict", AbsentS), Entry("dict", StrS(word)), Entry("dict", StrS(<<>>)),
   Entry("dict", NoneS)}
PlaceInputs ==
  {None, NaN, Num(5), Str(<<>>), Str(<<"A", "u", "s", "t", "i", "n">>)}
  \cup {Dict([city |-> c, state |-> st, zip |-> z]) :
          c \in Entries(<<"A", "u", "s", "t", "i", "n">>), st \in Entries(<<"T", "X">>),
          z \in {AbsentS, NoneS, StrS(<<"7", "8", "7", "0", "1">>), NumS(78701)}}
DeadlineInputs ==
  {None, NaN, Num(5), Dict(EmptyPop), Str(<<>>),
   Str(<<"T", "B", "D">>), Str(<<"n", "o", "t", "-", "a", "-", "d", "a", "t", "e">>),
   Str(<<"2", "0", "2", "5", "-", "0", "3", "-", "1", "0", "T", "1", "7", ":", "0", "0", ":", "0", "0", "Z">>), Str(<<"2", "0", "2", "4", "-", "0", "2", "-", "2", "9", "T", "2", "3", ":", "5", "9", ":", "5", "9", "Z">>),
   Str(<<"2", "0", "2", "5", "-", "0", "2", "-", "2", "9", "T", "0", "0", ":", "0", "0", ":", "0", "0", "Z">>), Str(<<"2", "0", "2", "5", "-", "1", "3", "-", "0", "1", "T", "0", "0", ":", "0", "0", ":", "0", "0", "Z">>),
   Str(<<"2", "0", "2", "5", "-", "0", "1", "-", "0", "1", "T", "2", "4", ":", "0", "0", ":", "0", "0", "Z">>)}
PathInputs ==
  {None, NaN, Num(5), Dict(EmptyPop), Str(<<>>), Str(<<" ">>),
   Str(<<"D", "e", "p", "a", "r", "t", "m", "e", "n", "t", " ", "O", "f", " ", "E", "x", "a", "m", "p", "l", "e", " ", "A", "g", "e", "n", "c", "y">>), Str(<<" ", "d", "e", "p", "t", " ", " ", "o", "f", " ", "x", " ">>),
   Str(<<"9", "t", "h", " ", "f", "l", "e", "e", "t">>)}
UrlChars == {"u", "/", "\""}
UrlInputs ==
  {None, NaN, Num(5)}
  \cup {Str(u) : u \in UNION {[1..m -> UrlChars] : m \in 0..MaxUrlLen}}

CallPlace ==
  /\ \E a \in PlaceInputs : fcall' = Call("place", a, format_performance_place(a), None)
  /\ UNCHANGED <<api_results, dataframe, inp, run>>

CallDeadline ==
  /\ \E a \in DeadlineInputs : fcall' = Call("deadline", a, format_deadline(a), None)
  /\ UNCHANGED <<api_results, dataframe, inp, run>>

CallInitialism ==
  /\ \E a \in PathInputs : fcall' = Call("initialism", a, format_initialism(a), None)
  /\ UNCHANGED <<api_results, dataframe, inp, run>>

\* The link of one record through the render phase: the cell shown, and the
\* cell of the displayed-columns export (lines 212-218, 232-246)
ShownLink(x) ==
  render(DataFrame(<<Rec(<<"uiLink">>, [uiLink |-> x])>>)).view.shown.rows[1].cells[1]
ExportedLink(x) ==
  render(DataFrame(<<Rec(<<"uiLink">>, [uiLink |-> x])>>)).view.visible_export.rows[1].cells[1]

CallLink ==
  /\ \E a \in UrlInputs : fcall' = Call("link", a, Ret(ShownLink(a).s), ExportedLink(a))
  /\ UNCHANGED <<api_results, dataframe, inp, run>>

FmtNext == CallPlace \/ CallDeadline \/ CallInitialism \/ CallLink

FmtSpec == Init /\ [][FmtNext]_vars

\* ------------------------------------------------------------- properties
\* What the filters are meant to select, stated on the records of the API's
\* answer (not on the DataFrame the code builds).
HasKey(rec, key) == key \in KeySet(rec)
Results == inp.resp.results
Answered == inp.resp.k = "ok" /\ Results # <<>>

NaicsPredicate(rec) ==
  /\ HasKey(rec, "naicsCode")
  /\ ~isnull(rec.val.naicsCode)
  /\ LET s == PyStr(rec.val.naicsCode.k, rec.val.naicsCode.s, rec.val.naicsCode.n)
     IN Len(s) >= 2 /\ s[1] = "2" /\ s[2] = "3"

IsBlank(rec) ==
  \/ ~HasKey(rec, "typeOfSetAside")
  \/ rec.val.typeOfSetAside.k \in {"none", "nan"}
  \/ rec.val.typeOfSetAside = Str(<<>>)
SetAsidePredicate(rec, accepted) ==
  \/ blank \in accepted /\ IsBlank(rec)
  \/ /\ HasKey(rec, "typeOfSetAside")
     /\ rec.val.typeOfSetAside.k = "str"
     /\ rec.val.typeOfSetAside.s \in accepted \ {blank}

OnOrAfter(t, date) ==
  \/ t.y > date.y
  \/ t.y = date.y /\ t.mo > date.mo
  \/ t.y = date.y /\ t.mo = date.mo /\ t.d >= date.d
DeadlinePredicate(rec, date) ==
  /\ HasKey(rec, "responseDeadLine")
  /\ to_datetime(rec.val.responseDeadLine).ok
  /\ OnOrAfter(to_datetime(rec.val.responseDeadLine), date)

Satisfies(rec, i) ==
  /\ i.include_naics_23 => NaicsPredicate(rec)
  /\ i.selected_set_asides # {} => SetAsidePredicate(rec, i.selected_set_asides)
  /\ i.due_date_from.set => DeadlinePredicate(rec, i.due_date_from)

\* The last run was a search with both dates given
Attempted == run.phase = "done" /\ inp.button /\ inp.dates_ok
LastMsg == run.msgs[Len(run.msgs)]
\* ... and it reached line 145 and stored its DataFrame
Stored == Attempted /\ run.msgs # <<>> /\ LastMsg.lvl = "success"

\* The index labels of the rows the search produced, in order
Output == IF Stored /\ dataframe.k = "df"
          THEN [j \in 1..Len(dataframe.rows) |-> dataframe.rows[j].idx]
          ELSE <<>>
Retained(i) == \E j \in 1..Len(Output) : Output[j] = i
Indices == 0..(Len(Results) - 1)
Expected(i) ==
  SelectSeq([j \in 1..Len(Results) |-> j - 1], LAMBDA n : Satisfies(Results[n + 1], i))

\* f holds rows of the record set results, cell for cell, under their labels
RowsFrom(f, results) ==
  /\ f.cols = UnionCols(results, <<>>)
  /\ \A j \in 1..Len(f.rows) :
       /\ f.rows[j].idx \in 0..(Len(results) - 1)
       /\ f.rows[j].cells = DataFrame(results).rows[f.rows[j].idx + 1].cells

\* C1: after an attempted search the session's dataframe is cleared or is the
\* filtered result of that search's response (never rows of an earlier search,
\* never out of step with api_results).
C1_LastSearchWins ==
  (Attempted /\ dataframe.k = "df") =>
     /\ Answered
     /\ api_results = ListResults(Results)
     /\ RowsFrom(dataframe, Results)
     /\ \A j \in 1..Len(dataframe.rows) :
          Satisfies(Results[dataframe.rows[j].idx + 1], inp)

\* C2: the filter chain's output is exactly the input rows that satisfy every
\* enabled filter, in their original order, and never more rows than the input.
C2_FilterChainExact ==
  (Attempted /\ Answered) =>
     /\ Output = Expected(inp)
     /\ Len(Output) <= Len(Results)
     /\ Stored /\ dataframe.k = "df" => RowsFrom(dataframe, Results)

\* C3: when a filter leaves no row, the search ends there: no later filter is
\* applied, the stored result is cleared, nothing is rendered or offered for
\* export, and the outcome is a warning, not an error or an exception.
PredicateOf(name, rec) ==
  CASE name = "naics" -> NaicsPredicate(rec)
    [] name = "set_aside" -> SetAsidePredicate(rec, inp.selected_set_asides)
    [] OTHER -> DeadlinePredicate(rec, inp.due_date_from)
Survivors(applied) ==
  {i \in Indices : \A m \in 1..Len(applied) : PredicateOf(applied[m], Results[i + 1])}
Emptied ==
  Attempted /\ Answered /\ run.applied # <<>> /\ Survivors(run.applied) = {}
C3_EmptyResultTerminal ==
  Emptied =>
     /\ Survivors(SubSeq(run.applied, 1, Len(run.applied) - 1)) # {}
     /\ dataframe = NoneFrame
     /\ run.stopped
     /\ ~run.view.rendered /\ ~run.view.crashed
     /\ run.view.shown = NoneFrame
     /\ run.view.visible_export = NoneFrame /\ run.view.full_export = NoneFrame
     /\ LastMsg.lvl = "warning"
     /\ \A m \in 1..Len(run.msgs) : run.msgs[m].lvl # "error"
\* a filter in the middle of the chain emptied the set: NAICS had kept rows,
\* the set-aside filter left none, the deadline filter was enabled
C3_Witness ==
  /\ Emptied
  /\ run.applied = <<"naics", "set_aside">>
  /\ inp.due_date_from.set
  /\ dataframe = NoneFrame

\* C4: with the NAICS filter enabled and naicsCode absent from every record,
\* the filter is a no-op: a warning, the record set unchanged, the remaining
\* filters applied and the result stored.
NaicsAbsent == \A j \in 1..Len(Results) : ~HasKey(Results[j], "naicsCode")
C4_NaicsAbsentNoOp ==
  (Attempted /\ Answered /\ inp.include_naics_23 /\ NaicsAbsent) =>
     /\ \E m \in 1..Len(run.msgs) : run.msgs[m] = Msg("warning", "no_naics_data")
     /\ Output = Expected([inp EXCEPT !.include_naics_23 = FALSE])
     /\ Output # <<>> => RowsFrom(dataframe, Results)

\* C5: with the set-aside filter alone, a record is retained iff "blank" is
\* accepted and its typeOfSetAside is null, missing or empty, or its
\* typeOfSetAside is one of the other accepted codes; an empty accepted set
\* retains every record.
C5_SetAsideRetention ==
  (Attempted /\ Answered /\ ~inp.include_naics_23 /\ ~inp.due_date_from.set) =>
     \A i \in Indices :
        Retained(i) <=> \/ inp.selected_set_asides = {}
                        \/ SetAsidePredicate(Results[i + 1], inp.selected_set_asides)

\* C6: with the deadline filter enabled a retained record's responseDeadLine
\* parses and is at or after midnight UTC of the date; with that filter alone
\* every such record is retained; a record whose deadline is missing, null or
\* unparseable is excluded; the parsed-timestamp column is not in the result.
C6_DeadlineRetention ==
  (Attempted /\ Answered /\ inp.due_date_from.set) =>
     /\ \A i \in Indices :
          Retained(i) => DeadlinePredicate(Results[i + 1], inp.due_date_from)
     /\ (~inp.include_naics_23 /\ inp.selected_set_asides = {}) =>
          \A i \in Indices :
             DeadlinePredicate(Results[i + 1], inp.due_date_from) => Retained(i)
     /\ dataframe.k = "df" => ~HasCol(dataframe, "responseDeadLine_dt")
\* the deadline filter alone kept a record due exactly at midnight of the date
\* and dropped one whose deadline is missing or does not parse
C6_Witness ==
  /\ Stored /\ inp.due_date_from.set
  /\ ~inp.include_naics_23 /\ inp.selected_set_asides = {}
  /\ \E i \in Indices :
       /\ Retained(i)
       /\ to_datetime(Results[i + 1].val.responseDeadLine)
            = DateMidnightUTC(inp.due_date_from)
  /\ \E i \in Indices :
       /\ ~Retained(i)
       /\ \/ ~HasKey(Results[i + 1], "responseDeadLine")
          \/ ~to_datetime(Results[i + 1].val.responseDeadLine).ok

\* C7: a transport error is caught in the search: a message is shown, both
\* api_results and dataframe become None, the run goes on to the render phase,
\* which shows nothing, and no exception ends the run.
C7_TransportErrorClears ==
  (Attempted /\ inp.resp.k = "error") =>
     /\ api_results = NoneResults
     /\ dataframe = NoneFrame
     /\ \E m \in 1..Len(run.msgs) : run.msgs[m] = Msg("error", "request_failed")
     /\ ~run.stopped
     /\ ~run.view.crashed /\ ~run.view.rendered
     /\ run.view.shown = NoneFrame
     /\ run.view.visible_export = NoneFrame /\ run.view.full_export = NoneFrame
C7_Witness ==
  /\ Attempted /\ inp.resp.k = "error"
  /\ api_results = NoneResults /\ dataframe = NoneFrame
  /\ LastMsg = Msg("error", "request_failed")

\* C8: format_performance_place, format_deadline and the initialism formatter
\* return a string for every input and never raise.
C8_FormattersTotal ==
  fcall.op \in {"place", "deadline", "initialism"} => ~fcall.res.raised

\* C9: the render phase works on copies: the full export is the session's
\* dataframe, which keeps the rows, columns and raw cell values the search
\* stored, over any number of render cycles.
C9_State ==
  /\ run.view.rendered => run.view.full_export = dataframe
  /\ Stored /\ dataframe.k = "df" => RowsFrom(dataframe, Results)
C9_Step ==
  (run'.phase = "done" /\ ~inp'.button) => dataframe' = dataframe
C9_FullExportNeverMutated == [](C9_State) /\ [][C9_Step]_vars
\* a rerun rendered formatted columns while the export kept the raw ones
C9_Witness ==
  /\ run.phase = "done" /\ ~inp.button
  /\ run.view.rendered
  /\ HasCol(run.view.shown, "Place of Performance")
  /\ HasCol(run.view.shown, "Opportunity Link")
  /\ HasCol(run.view.full_export, "placeOfPerformance")
  /\ HasCol(dataframe, "uiLink")

\* C10: for every string uiLink, including the empty string and strings with
\* a double quote, the displayed-columns export holds exactly that URL.
C10_LinkRoundTrip ==
  (fcall.op = "link" /\ fcall.arg.k = "str") => fcall.out = fcall.arg

====
